---- MODULE Spec2Model ----
(***************************************************************************)
(* A model of the IBFT participant of this repository: IBFTNode (node.py),  *)
(* its messages (messages.py) and the signature scheme (crypto.py).  The    *)
(* transport and the application are the environment: they deliver         *)
(* messages to receive_message, fire the round timer and call              *)
(* propose_value.                                                          *)
(*                                                                         *)
(* A participant is a record holding the fields of IBFTNode; every method  *)
(* of IBFTNode is an operator from the record before the call to the       *)
(* record after it.  Python's None is the value None below, a dict is a    *)
(* function on its keys, a set is a set.                                   *)
(*                                                                         *)
(* Spec runs the participants of node.py.  EngineSpec drives the engines   *)
(* IBFTConsensus (consensus.py) and IBFTViewChange (view_change.py), which *)
(* no IBFTNode instantiates, through their handlers.  ConstructSpec builds *)
(* the participants of networks of 4 to MaxNodes participants.             *)
(***************************************************************************)
EXTENDS Integers, Sequences, FiniteSets, TLC

VARIABLES node, env, calls

vars == <<node, env, calls>>

\* ------------------------------------------------------------ parameters

\* main.py: IBFTTestRunner(n_nodes=4)
N == 4

Nodes == 0 .. (N - 1)

\* node.py __init__: self.f = (total_nodes - 1) // 3
f == (N - 1) \div 3

\* the threshold every handler of node.py compares with: 2 * self.f + 1
quorum_size == 2 * f + 1

\* node.py __init__ for a participant constructed with total_nodes
f_of(total_nodes) == (total_nodes - 1) \div 3

\* the largest participant count the quorum arithmetic is checked for
MaxNodes == 7

\* how many messages the transport may hold in a participant's queue
MaxQueue == 1

\* how many times the application calls propose_value in one run
MaxCalls == 1

\* the highest sequence a run is asked to decide
MaxSequence == 0

None == "<None>"

\* ------------------------------------------------------------ crypto.py

\* generate_keypair: a fresh random private key per participant and the
\* public key derived from it
private_key(i) == "priv" \o ToString(i)

public_key(i) == <<"sha256", private_key(i)>>

public_keys == [i \in Nodes |-> public_key(i)]

\* sign: sha256(private_key + message); the hash is collision free, so the
\* signature is the pair it was computed from
crypto_sign(key, message) == <<key, message>>

\* verify_signature: the signature must start with the first 16 hex digits
\* of sha256("dummy" + message); the public key is not used
verify_signature(key, message, signature) ==
    signature = crypto_sign("dummy", message)

\* ---------------------------------------------------------- messages.py

MessageType == {"PREPREPARE", "PREPARE", "COMMIT", "ROUND_CHANGE", "NEW_ROUND"}

\* IBFTMessage(msg_type, view, sequence, sender, value, justification),
\* unsigned, created at time ts
IBFTMessage(msg_type, view, sequence, sender, value, justification, ts) ==
    [msg_type |-> msg_type, view |-> view, sequence |-> sequence,
     sender |-> sender, value |-> value, justification |-> justification,
     signature |-> <<>>, timestamp |-> ts]

\* hash: sha256 of the JSON of every field but the signature; sha256 is
\* taken to be collision free, so the digest is the data it was computed from
hash(m) ==
    [type |-> m.msg_type, view |-> m.view, sequence |-> m.sequence,
     sender |-> m.sender, value |-> m.value,
     justification |-> m.justification, timestamp |-> m.timestamp]

sign(m, key) == [m EXCEPT !.signature = crypto_sign(key, hash(m))]

verify(m, key) ==
    IF m.signature = <<>> THEN FALSE
    ELSE verify_signature(key, hash(m), m.signature)

\* list(set): the members of a set in one of their orders
RECURSIVE list_of(_)
list_of(S) ==
    IF S = {} THEN <<>>
    ELSE LET x == CHOOSE y \in S : TRUE
         IN  <<x>> \o list_of(S \ {x})

\* to_dict: the msg_type under the key 'type', the justification as a list
to_dict(m) ==
    [type |-> m.msg_type, view |-> m.view, sequence |-> m.sequence,
     sender |-> m.sender, value |-> m.value,
     justification |-> list_of(m.justification),
     timestamp |-> m.timestamp, signature |-> m.signature]

\* to_json: json.dumps(self.to_dict(), sort_keys=True), the text of the dict
to_json(m) == [json |-> to_dict(m)]

\* the keyword parameters of the constructor the dataclass generates
init_params ==
    {"msg_type", "view", "sequence", "sender", "value", "justification",
     "signature", "timestamp"}

\* from_json: json.loads, data['type'] = MessageType(data['type']), then
\* cls(**data), which raises TypeError on a keyword that is no parameter
from_json(json_str) ==
    LET data == json_str.json
    IN  IF data.type \notin MessageType
        THEN [raised |-> "ValueError"]
        ELSE IF ~(DOMAIN data \subseteq init_params)
        THEN [raised |-> "TypeError"]
        ELSE [raised |-> None,
              message |-> [msg_type |-> data.msg_type, view |-> data.view,
                           sequence |-> data.sequence, sender |-> data.sender,
                           value |-> data.value,
                           justification |-> data.justification,
                           signature |-> data.signature,
                           timestamp |-> data.timestamp]]

\* --------------------------------------------------------------- node.py

\* IBFTNode.__init__; clock is the participant's reading of time(), sent the
\* messages handed to the network callback, callbacks the invocations of
\* on_decision_callback, firing a timer thread that has expired and waits
\* for self.lock
InitNode(i) ==
    [node_id |-> i, lam |-> 0, r |-> 0, pr |-> -1, pv |-> None,
     lock_round |-> -1, lock_value |-> None,
     preprepare_msgs |-> <<>>, prepare_msgs |-> {}, commit_msgs |-> {},
     round_change_msgs |-> {}, new_round_msgs |-> <<>>,
     decided |-> FALSE, decision |-> None, decisions |-> <<>>,
     seen_messages |-> {}, message_queue |-> <<>>,
     round_timer |-> "none", firing |-> FALSE,
     clock |-> 1, sent |-> <<>>, callbacks |-> <<>>]

\* the senders recorded in a log for (view, sequence, value)
senders_of(log, view, sequence, value) ==
    {e[4] : e \in {x \in log : x[1] = view /\ x[2] = sequence /\ x[3] = value}}

\* the senders recorded in round_change_msgs for a view
round_change_senders(s, view) ==
    {e[2] : e \in {x \in s.round_change_msgs : x[1] = view}}

\* receive_message without the test of seen_messages
receive_message_again(s, message) ==
    [s EXCEPT !.seen_messages = @ \cup {hash(message)},
              !.message_queue = Append(@, message)]

receive_message(s, message) ==
    IF hash(message) \in s.seen_messages THEN s
    ELSE [s EXCEPT !.seen_messages = @ \cup {hash(message)},
                   !.message_queue = Append(@, message)]

\* broadcast: the network callback for every other participant, then the
\* sender's own receive_message
broadcast(s, message) ==
    receive_message([s EXCEPT !.sent = Append(@, message)], message)

is_valid_value(value) == value # None

reset_round_timer(s) == [s EXCEPT !.round_timer = "armed"]

send_prepare(s, value, view, sequence) ==
    broadcast([s EXCEPT !.clock = @ + 1],
              sign(IBFTMessage("PREPARE", view, sequence, s.node_id, value,
                               {}, s.clock),
                   private_key(s.node_id)))

send_commit(s, value, view, sequence) ==
    broadcast([s EXCEPT !.clock = @ + 1],
              sign(IBFTMessage("COMMIT", view, sequence, s.node_id, value,
                               {}, s.clock),
                   private_key(s.node_id)))

handle_preprepare(s, msg) ==
    IF (msg.view % N) # msg.sender THEN s
    ELSE IF msg.view # s.r THEN s
    ELSE LET s1 == [s EXCEPT !.preprepare_msgs =
                        (<<msg.view, msg.sequence>> :> msg) @@ @]
         IN  IF ~is_valid_value(msg.value) THEN s1
             ELSE reset_round_timer(
                      send_prepare(s1, msg.value, msg.view, msg.sequence))

handle_prepare(s, msg) ==
    LET s1 == [s EXCEPT !.prepare_msgs =
                   @ \cup {<<msg.view, msg.sequence, msg.value, msg.sender>>}]
    IN  IF Cardinality(senders_of(s1.prepare_msgs, msg.view, msg.sequence,
                                  msg.value)) >= quorum_size
        THEN LET s2 == IF msg.view > s1.lock_round
                       THEN [s1 EXCEPT !.lock_round = msg.view,
                                       !.lock_value = msg.value]
                       ELSE s1
             IN  send_commit(s2, msg.value, msg.view, msg.sequence)
        ELSE s1

decide(s, value, sequence) ==
    [s EXCEPT !.decided = TRUE, !.decision = value,
              !.decisions = (sequence :> value) @@ @,
              !.lam = sequence + 1,
              !.callbacks = Append(@, <<s.node_id, sequence, value>>)]

handle_commit(s, msg) ==
    LET s1 == [s EXCEPT !.commit_msgs =
                   @ \cup {<<msg.view, msg.sequence, msg.value, msg.sender>>}]
    IN  IF Cardinality(senders_of(s1.commit_msgs, msg.view, msg.sequence,
                                  msg.value)) >= quorum_size
        THEN decide(s1, msg.value, msg.sequence)
        ELSE s1

\* "if self.lock_value:" is Python's truth test
truthy(value) == value # None /\ value # ""

collect_round_change_justification(s) ==
    IF s.lock_round >= 0 /\ truthy(s.lock_value)
    THEN {hash(IBFTMessage("PREPARE", s.lock_round, s.lam, s.node_id,
                           s.lock_value, {}, s.clock))}
    ELSE {}

start_round_change(s) ==
    LET new_view == s.r + 1
        s1 == [s EXCEPT !.r = new_view]
        justification == collect_round_change_justification(s1)
    IN  broadcast([s1 EXCEPT !.clock = @ + 2],
                  sign(IBFTMessage("ROUND_CHANGE", new_view, s1.lam,
                                   s1.node_id, None, justification,
                                   s1.clock + 1),
                       private_key(s1.node_id)))

\* the (view, value) pairs of prepare_msgs with a quorum of senders
prepared_entries(s) ==
    {<<e[1], e[3]>> : e \in {x \in s.prepare_msgs :
        Cardinality(senders_of(s.prepare_msgs, x[1], x[2], x[3]))
            >= quorum_size}}

\* _determine_safe_value answering as IBFTViewChange._determine_safe_value
\* does without a lock
determine_safe_value_default(s, new_view) ==
    IF s.lock_round >= 0 THEN s.lock_value
    ELSE "Default block"

\* the loop over prepare_msgs keeps the first entry of the highest view it
\* meets; which of several such entries comes first is the dict's order
determine_safe_value(s, new_view) ==
    IF s.lock_round >= 0 THEN s.lock_value
    ELSE IF prepared_entries(s) = {} THEN None
    ELSE (CHOOSE e \in prepared_entries(s) :
              \A o \in prepared_entries(s) : o[1] <= e[1])[2]

send_new_round(s, view) ==
    LET safe == determine_safe_value(s, view)
        safe_value == IF safe = None
                      THEN "Block for view " \o ToString(view)
                      ELSE safe
        justification ==
            {e[3] : e \in {x \in s.round_change_msgs : x[1] = view}}
    IN  broadcast([s EXCEPT !.clock = @ + 1],
                  sign(IBFTMessage("NEW_ROUND", view, s.lam, s.node_id,
                                   safe_value, justification, s.clock),
                       private_key(s.node_id)))

\* _handle_round_change counting the ROUND_CHANGEs of a view instead of
\* their senders
handle_round_change_per_message(s, msg) ==
    LET s1 == [s EXCEPT !.round_change_msgs =
                   @ \cup {<<msg.view, msg.sender, hash(msg)>>}]
    IN  IF /\ Cardinality({x \in s1.round_change_msgs : x[1] = msg.view})
                  >= quorum_size
           /\ (msg.view % N) = s1.node_id
        THEN send_new_round(s1, msg.view)
        ELSE s1

handle_round_change(s, msg) ==
    LET s1 == [s EXCEPT !.round_change_msgs =
                   @ \cup {<<msg.view, msg.sender, hash(msg)>>}]
    IN  IF /\ Cardinality(round_change_senders(s1, msg.view)) >= quorum_size
           /\ (msg.view % N) = s1.node_id
        THEN send_new_round(s1, msg.view)
        ELSE s1

\* _handle_new_round without the test of the sender
handle_new_round_any_sender(s, msg) ==
    LET s1 == [s EXCEPT !.new_round_msgs = (msg.view :> msg) @@ @,
                        !.r = msg.view, !.pr = -1, !.pv = None,
                        !.clock = @ + 1]
    IN  handle_preprepare(s1,
            IBFTMessage("PREPREPARE", msg.view, s.lam, msg.sender,
                        msg.value, {}, s.clock))

handle_new_round(s, msg) ==
    IF (msg.view % N) # msg.sender THEN s
    ELSE LET s1 == [s EXCEPT !.new_round_msgs = (msg.view :> msg) @@ @,
                             !.r = msg.view, !.pr = -1, !.pv = None,
                             !.clock = @ + 1]
         IN  handle_preprepare(s1,
                 IBFTMessage("PREPREPARE", msg.view, s.lam, msg.sender,
                             msg.value, {}, s.clock))

\* process_message without the test "message.sequence < self.λ"
process_message_any_sequence(s, message) ==
    IF message.sender \notin DOMAIN public_keys THEN s
    ELSE IF ~verify(message, public_keys[message.sender]) THEN s
    ELSE CASE message.msg_type = "PREPREPARE" -> handle_preprepare(s, message)
           [] message.msg_type = "PREPARE" -> handle_prepare(s, message)
           [] message.msg_type = "COMMIT" -> handle_commit(s, message)
           [] message.msg_type = "ROUND_CHANGE" -> handle_round_change(s, message)
           [] message.msg_type = "NEW_ROUND" -> handle_new_round(s, message)
           [] OTHER -> s

\* _process_message with the test of the sequence off by one
process_message_stale_by_two(s, message) ==
    IF message.sender \notin DOMAIN public_keys THEN s
    ELSE IF ~verify(message, public_keys[message.sender]) THEN s
    ELSE IF message.sequence + 1 < s.lam THEN s
    ELSE process_message_any_sequence(s, message)

\* _process_message; an unknown sender raises KeyError in public_keys[...],
\* which process_messages catches
process_message(s, message) ==
    IF message.sender \notin DOMAIN public_keys THEN s
    ELSE IF ~verify(message, public_keys[message.sender]) THEN s
    ELSE IF message.sequence < s.lam THEN s
    ELSE CASE message.msg_type = "PREPREPARE" -> handle_preprepare(s, message)
           [] message.msg_type = "PREPARE" -> handle_prepare(s, message)
           [] message.msg_type = "COMMIT" -> handle_commit(s, message)
           [] message.msg_type = "ROUND_CHANGE" -> handle_round_change(s, message)
           [] message.msg_type = "NEW_ROUND" -> handle_new_round(s, message)
           [] OTHER -> s

propose_value(s, value) ==
    IF s.decided THEN s
    ELSE IF (s.r % N) = s.node_id
    THEN broadcast([s EXCEPT !.clock = @ + 1],
                   sign(IBFTMessage("PREPREPARE", s.r, s.lam, s.node_id,
                                    value, {}, s.clock),
                        private_key(s.node_id)))
    ELSE s

\* ------------------------------------- consensus.py and view_change.py

\* IBFTConsensus(node) and IBFTViewChange(node): the two engines with the
\* participant whose attributes they read and write.  prepare holds
\* (view, sequence, value, sender), round_change_msgs (view, sender, digest).
InitEngine(i) ==
    [node |-> InitNode(i),
     message_logs |-> [preprepare |-> <<>>, prepare |-> {}, commit |-> {}],
     decided_values |-> <<>>,
     round_change_msgs |-> {}, new_round_msgs |-> <<>>,
     round_timer |-> "none"]

\* self.node.quorum_size(): the participant the engines are attached to is
\* expected to offer it; quorum = 2f + 1
node_quorum_size == 2 * f + 1

\* IBFTValidator.is_valid_value for None and for strings that are not JSON
validator_is_valid_value(value) == value # None /\ value # ""

\* the strings f"lock_{round}_{hash(str(value))}" and f"lock_proof_..." of
\* view_change.py, written in the shape of a digest so that they can stand
\* in a justification next to digests
lock_string(prefix, round, value) ==
    [type |-> prefix, view |-> round, sequence |-> 0, sender |-> 0,
     value |-> value, justification |-> {}, timestamp |-> 0]

is_primary_for_view(view, node_id) == (view % N) = node_id

view_change_reset_round_timer(e) == [e EXCEPT !.round_timer = "armed"]

has_valid_justification(justification, view) ==
    IF justification = {} THEN FALSE
    ELSE Cardinality(justification) >= f + 1

consensus_send_prepare(e, value, view, sequence) ==
    LET prepare_msg == sign(IBFTMessage("PREPARE", view, sequence,
                                        e.node.node_id, value, {},
                                        e.node.clock),
                            private_key(e.node.node_id))
        n1 == [e.node EXCEPT !.clock = @ + 1]
        n2 == IF view > n1.pr THEN [n1 EXCEPT !.pr = view, !.pv = value]
              ELSE n1
    IN  [e EXCEPT !.node = broadcast(n2, prepare_msg)]

consensus_handle_preprepare(e, msg) ==
    IF ~is_primary_for_view(msg.view, msg.sender) THEN e
    ELSE IF msg.view # e.node.r THEN e
    ELSE IF <<msg.view, msg.sequence>> \in DOMAIN e.message_logs.preprepare
    THEN e
    ELSE IF ~validator_is_valid_value(msg.value) THEN e
    ELSE IF /\ msg.view > 0
            /\ msg.justification # {}
            /\ ~has_valid_justification(msg.justification, msg.view)
    THEN e
    ELSE view_change_reset_round_timer(
             consensus_send_prepare(
                 [e EXCEPT !.message_logs.preprepare =
                      (<<msg.view, msg.sequence>> :> msg) @@ @],
                 msg.value, msg.view, msg.sequence))

consensus_send_commit(e, value, view, sequence) ==
    [e EXCEPT !.node =
        broadcast([e.node EXCEPT !.clock = @ + 1],
                  sign(IBFTMessage("COMMIT", view, sequence, e.node.node_id,
                                   value, {}, e.node.clock),
                       private_key(e.node.node_id)))]

on_prepared(e, view, sequence, value) ==
    LET e1 == IF view > e.node.lock_round
              THEN [e EXCEPT !.node.lock_round = view,
                             !.node.lock_value = value]
              ELSE e
    IN  consensus_send_commit(e1, value, view, sequence)

\* _store_pending_message: its body is "pass", the message is not kept
store_pending_message(e, msg) == e

consensus_handle_prepare(e, msg) ==
    IF <<msg.view, msg.sequence>> \notin DOMAIN e.message_logs.preprepare
    THEN store_pending_message(e, msg)
    ELSE IF msg.value # e.message_logs.preprepare[<<msg.view, msg.sequence>>].value
    THEN e
    ELSE LET e1 == [e EXCEPT !.message_logs.prepare =
                        @ \cup {<<msg.view, msg.sequence, msg.value,
                                  msg.sender>>}]
         IN  IF Cardinality(senders_of(e1.message_logs.prepare, msg.view,
                                       msg.sequence, msg.value))
                    >= node_quorum_size
             THEN on_prepared(e1, msg.view, msg.sequence, msg.value)
             ELSE e1

view_change_collect_round_change_justification(e) ==
    IF e.node.lock_round >= 0 /\ truthy(e.node.lock_value)
    THEN {lock_string("lock", e.node.lock_round, e.node.lock_value)}
    ELSE {}

create_lock_proof(e) ==
    IF e.node.lock_round < 0 \/ e.node.lock_value = None THEN None
    ELSE lock_string("lock_proof", e.node.lock_round, e.node.lock_value)

view_change_start_round_change(e) ==
    LET new_view == e.node.r + 1
        n1 == [e.node EXCEPT !.r = new_view, !.pr = -1, !.pv = None]
        e1 == [e EXCEPT !.node = n1]
        justification == view_change_collect_round_change_justification(e1)
        locked == n1.lock_round >= 0 /\ truthy(n1.lock_value)
        round_change_msg ==
            IBFTMessage("ROUND_CHANGE", new_view, n1.lam, n1.node_id,
                        IF locked THEN n1.lock_value ELSE None,
                        IF locked
                        THEN justification \cup {create_lock_proof(e1)}
                        ELSE justification,
                        n1.clock)
    IN  [e1 EXCEPT !.node =
            broadcast([n1 EXCEPT !.clock = @ + 1],
                      sign(round_change_msg, private_key(n1.node_id)))]

view_change_determine_safe_value(e, new_view) ==
    IF e.node.lock_round >= 0 THEN e.node.lock_value
    ELSE "Default block"

view_change_send_new_round(e, view) ==
    LET safe == view_change_determine_safe_value(e, view)
        safe_value == IF safe = None
                      THEN "New block for view " \o ToString(view)
                      ELSE safe
        justification ==
            {x[3] : x \in {y \in e.round_change_msgs : y[1] = view}}
    IN  [e EXCEPT !.node =
            broadcast([e.node EXCEPT !.clock = @ + 1],
                      sign(IBFTMessage("NEW_ROUND", view, e.node.lam,
                                       e.node.node_id, safe_value,
                                       justification, e.node.clock),
                           private_key(e.node.node_id)))]

has_round_change_quorum(e, view) ==
    Cardinality(round_change_senders(e, view)) >= node_quorum_size

view_change_handle_round_change(e, msg) ==
    IF msg.view < e.node.r THEN e
    ELSE LET e1 == [e EXCEPT !.round_change_msgs =
                        @ \cup {<<msg.view, msg.sender, hash(msg)>>}]
         IN  IF /\ has_round_change_quorum(e1, msg.view)
                /\ is_primary_for_view(msg.view, e1.node.node_id)
             THEN view_change_send_new_round(e1, msg.view)
             ELSE e1

is_safe_proposal(value, justification, view) ==
    IF justification = {} THEN FALSE
    ELSE Cardinality(justification) > 0

view_change_handle_new_round(e, msg) ==
    IF ~is_primary_for_view(msg.view, msg.sender) THEN e
    ELSE IF ~has_round_change_quorum(e, msg.view) THEN e
    ELSE IF ~is_safe_proposal(msg.value, msg.justification, msg.view) THEN e
    ELSE view_change_reset_round_timer(
             [e EXCEPT !.new_round_msgs = (msg.view :> msg) @@ @,
                       !.node.r = msg.view])

\* ----------------------------------------------------------- environment

\* a message that passes verify_signature: signed with the string "dummy",
\* which needs no participant's private key
forge(msg_type, view, sequence, sender, value, justification, ts) ==
    sign(IBFTMessage(msg_type, view, sequence, sender, value, justification,
                     ts), "dummy")

AllLinks == {l \in Nodes \X Nodes : l[1] # l[2]}

\* the digest a locked participant puts in its ROUND_CHANGE
lock_proof(view, sequence, sender, value) ==
    hash(IBFTMessage("PREPARE", view, sequence, sender, value, {}, 1))

\* What the transport and the application do in one run: byzantine holds the
\* participants that forge messages, pool the forged messages with the
\* target of each, links the
\* pairs (from, to) between which sent messages are delivered, proposals the
\* propose_value calls the application makes.

\* S1: all correct, the application proposes "B0" on participant 0
ScenarioS1 ==
    [name |-> "S1", byzantine |-> {}, pool |-> {}, links |-> AllLinks,
     proposals |-> {<<0, "B0">>}]

\* S2: participant 0 never proposes; the application proposes on the
\* primary of view 1
ScenarioS2 ==
    [name |-> "S2", byzantine |-> {}, pool |-> {}, links |-> AllLinks,
     proposals |-> {<<1, "B0">>}]

\* COMMITs for "X" reach participant 1 and COMMITs for "Y" participant 2
ScenarioSplit ==
    [name |-> "split", byzantine |-> {0},
     pool |-> {<<1, forge("COMMIT", 0, 0, i, "X", {}, 1)>> : i \in {0, 2, 3}}
         \cup {<<2, forge("COMMIT", 0, 0, i, "Y", {}, 1)>> : i \in {0, 1, 3}},
     links |-> {}, proposals |-> {}]

\* COMMITs carrying no value
ScenarioNull ==
    [name |-> "null", byzantine |-> {0},
     pool |-> {<<1, forge("COMMIT", 0, 0, i, None, {}, 1)>> : i \in {0, 2, 3}},
     links |-> {}, proposals |-> {}]

\* COMMITs for sequence 0 in two views and for two values, a sender's COMMIT
\* sent twice, and a fourth sender's
ScenarioCommits ==
    [name |-> "commits", byzantine |-> {0},
     pool |-> {<<1, forge("COMMIT", 0, 0, i, "A", {}, 1)>> : i \in Nodes}
         \cup {<<1, forge("COMMIT", 0, 0, 0, "A", {}, 2)>>}
         \cup {<<1, forge("COMMIT", 0, 0, i, "B", {}, 1)>> : i \in {0, 2, 3}}
         \cup {<<1, forge("COMMIT", 1, 0, i, "B", {}, 1)>> : i \in {0, 2, 3}},
     links |-> {}, proposals |-> {}]

\* COMMITs for sequence 1 and for sequence 0
ScenarioAhead ==
    [name |-> "ahead", byzantine |-> {0},
     pool |-> {<<1, forge("COMMIT", 0, 1, i, "A", {}, 1)>> : i \in {0, 2, 3}}
         \cup {<<1, forge("COMMIT", 0, 0, i, "A", {}, 1)>> : i \in {0, 2, 3}},
     links |-> {}, proposals |-> {}]

\* S4: the primary of view 0 sends several PRE-PREPAREs for (0, 0)
ScenarioEquivocate ==
    [name |-> "equivocate", byzantine |-> {0},
     pool |-> {<<1, forge("PREPREPARE", 0, 0, 0, "X", {}, 1)>>,
               <<1, forge("PREPREPARE", 0, 0, 0, "Y", {}, 2)>>,
               <<1, forge("PREPREPARE", 0, 0, 0, "X", {}, 3)>>},
     links |-> {}, proposals |-> {}]

\* a PRE-PREPARE and PREPAREs of all four senders for (0, 0, "A")
ScenarioPrepares ==
    [name |-> "prepares", byzantine |-> {0},
     pool |-> {<<1, forge("PREPREPARE", 0, 0, 0, "A", {}, 1)>>}
         \cup {<<1, forge("PREPARE", 0, 0, i, "A", {}, 1)>> : i \in Nodes},
     links |-> {}, proposals |-> {}]

\* S3: ROUND_CHANGEs for view 1 reach its primary, participant 2's with the
\* proof of its lock on (0, "A")
ScenarioLock ==
    [name |-> "lock", byzantine |-> {0},
     pool |-> {<<1, forge("ROUND_CHANGE", 1, 0, i, None, {}, 1)>> : i \in {0, 3}}
         \cup {<<1, forge("ROUND_CHANGE", 1, 0, 2, None,
                          {lock_proof(0, 0, 2, "A")}, 1)>>},
     links |-> {}, proposals |-> {}]

\* a PRE-PREPARE for view 0 and a NEW_ROUND for view 1 that do not come from
\* the primary of their view, and a NEW_ROUND for view 4 from participant 0
ScenarioPrimary ==
    [name |-> "primary", byzantine |-> {0},
     pool |-> {<<2, forge("PREPREPARE", 0, 0, 2, "Z", {}, 1)>>,
               <<2, forge("NEW_ROUND", 1, 0, 0, "Z", {}, 1)>>,
               <<2, forge("NEW_ROUND", 4, 0, 0, "W", {}, 1)>>},
     links |-> {}, proposals |-> {}]

\* PREPAREs for sequence 1 reach a participant whose instance is 0
ScenarioEarly ==
    [name |-> "early", byzantine |-> {0},
     pool |-> {<<1, forge("PREPARE", 0, 1, i, "A", {}, 1)>> : i \in {0, 2, 3}},
     links |-> {}, proposals |-> {}]

\* S5: COMMITs that decide sequence 0, and one message of every type for
\* sequence 0
ScenarioStale ==
    [name |-> "stale", byzantine |-> {0},
     pool |-> {<<1, forge("COMMIT", 0, 0, i, "A", {}, 1)>> : i \in {0, 2, 3}}
         \cup {<<1, forge("PREPREPARE", 0, 0, 0, "B", {}, 1)>>,
               <<1, forge("PREPARE", 0, 0, 0, "B", {}, 1)>>,
               <<1, forge("COMMIT", 0, 0, 0, "B", {}, 1)>>,
               <<1, forge("ROUND_CHANGE", 1, 0, 0, None, {}, 1)>>,
               <<1, forge("NEW_ROUND", 1, 0, 1, "B", {}, 1)>>},
     links |-> {}, proposals |-> {}]

\* S6: participants 2 and 3 see a PREPARE quorum for (0, 0, "v") and
\* broadcast COMMIT, participant 0 sends its COMMIT; participant 1 gets
\* nothing but the three COMMITs
ScenarioCatchUp ==
    [name |-> "catchup", byzantine |-> {0},
     pool |-> {<<t, forge("PREPARE", 0, 0, i, "v", {}, 1)>> :
                   t \in {2, 3}, i \in {0, 1, 2}}
         \cup {<<1, forge("COMMIT", 0, 0, 0, "v", {}, 1)>>},
     links |-> {<<2, 1>>, <<3, 1>>}, proposals |-> {}]

\* participant 0 decides sequence 0 on COMMITs; the application proposes on it
ScenarioAgain ==
    [name |-> "again", byzantine |-> {1},
     pool |-> {<<0, forge("COMMIT", 0, 0, i, "A", {}, 1)>> : i \in {1, 2, 3}},
     links |-> {}, proposals |-> {<<0, "B0">>}]

\* the application proposes on participant 1 in round 0; ROUND_CHANGEs for
\* view 1 that report no prepared value reach participant 1
ScenarioPending ==
    [name |-> "pending", byzantine |-> {0},
     pool |-> {<<1, forge("ROUND_CHANGE", 1, 0, i, None, {}, 1)>> :
                   i \in {0, 2, 3}},
     links |-> {}, proposals |-> {<<1, "B0">>}]

\* bad input for participant 1: a PREPARE of a sender that is no participant,
\* one without signature, one claiming sender 0 under participant 3's key,
\* participant 2's own PREPARE, and after them the PRE-PREPARE of the primary
\* signed with the string "dummy"
ScenarioBadInput ==
    [name |-> "badinput", byzantine |-> {3},
     pool |-> {<<1, forge("PREPARE", 0, 0, 7, "A", {}, 1)>>,
               <<1, IBFTMessage("PREPARE", 0, 0, 0, "A", {}, 1)>>,
               <<1, sign(IBFTMessage("PREPARE", 0, 0, 0, "A", {}, 2),
                         private_key(3))>>,
               <<1, sign(IBFTMessage("PREPARE", 0, 0, 2, "A", {}, 1),
                         private_key(2))>>,
               <<1, forge("PREPREPARE", 0, 0, 0, "A", {}, 1)>>},
     links |-> {}, proposals |-> {}]

\* PREPAREs for (0, 0, "A") and ROUND_CHANGEs for view 1 reach the primary
\* of view 1
ScenarioLocked ==
    [name |-> "locked", byzantine |-> {0},
     pool |-> {<<1, forge("PREPARE", 0, 0, i, "A", {}, 1)>> : i \in {0, 2, 3}}
         \cup {<<1, forge("ROUND_CHANGE", 1, 0, i, None, {}, 1)>> :
                   i \in {0, 2, 3}},
     links |-> {}, proposals |-> {}]

\* PREPAREs for (0, 0, "A") and for (0, 0, "B") reach participant 1
ScenarioTwoValues ==
    [name |-> "twovalues", byzantine |-> {0},
     pool |-> {<<1, forge("PREPARE", 0, 0, i, v, {}, 1)>> :
                   i \in {0, 2, 3}, v \in {"A", "B"}},
     links |-> {}, proposals |-> {}]

\* the primary of view 1 sends participant 2 a NEW_ROUND for "B" whose
\* justification holds the ROUND_CHANGEs of ScenarioLock, participant 2's
\* reporting its lock on (0, "A")
ScenarioUnsafe ==
    [name |-> "unsafe", byzantine |-> {1},
     pool |-> {<<2, forge("NEW_ROUND", 1, 0, 1, "B",
                          {hash(d[2]) : d \in ScenarioLock.pool}, 1)>>},
     links |-> {}, proposals |-> {}]

\* participant 1, primary of views 1 and 5, sends participant 3 a NEW_ROUND
\* for each of the two views
ScenarioBackwards ==
    [name |-> "backwards", byzantine |-> {1},
     pool |-> {<<3, forge("NEW_ROUND", 5, 0, 1, "W", {}, 1)>>,
               <<3, forge("NEW_ROUND", 1, 0, 1, "V", {}, 1)>>},
     links |-> {}, proposals |-> {}]

\* participant 1 locks on (0, "A") in instance 0 and decides it; then
\* ROUND_CHANGEs for view 1 of instance 1 reach it, the primary of view 1
ScenarioLeak ==
    [name |-> "leak", byzantine |-> {0},
     pool |-> {<<1, forge(t, 0, 0, i, "A", {}, 1)>> :
                   t \in {"PREPARE", "COMMIT"}, i \in {0, 2, 3}}
         \cup {<<1, forge("ROUND_CHANGE", 1, 1, i, None, {}, 1)>> :
                   i \in {0, 2, 3}},
     links |-> {}, proposals |-> {}]

\* participant 1 gets two ROUND_CHANGEs for view 1 of sender 0, one each of
\* senders 2 and 3, and ROUND_CHANGEs for view 2, whose primary it is not
ScenarioSameSender ==
    [name |-> "samesender", byzantine |-> {0},
     pool |-> {<<1, forge("ROUND_CHANGE", 1, 0, 0, None, {}, 2)>>}
         \cup {<<1, forge("ROUND_CHANGE", v, 0, i, None, {}, 1)>> :
                   v \in {1, 2}, i \in {0, 2, 3}},
     links |-> {}, proposals |-> {}]

\* three copies of the PRE-PREPARE of the primary of view 0 (same fields,
\* same timestamp, hence same digest) reach participant 1: one unsigned, one
\* signed with the primary's key, one that verify accepts
ScenarioSuppress ==
    [name |-> "suppress", byzantine |-> {0},
     pool |-> {<<1, IBFTMessage("PREPREPARE", 0, 0, 0, "A", {}, 1)>>,
               <<1, sign(IBFTMessage("PREPREPARE", 0, 0, 0, "A", {}, 1),
                         private_key(0))>>,
               <<1, forge("PREPREPARE", 0, 0, 0, "A", {}, 1)>>},
     links |-> {}, proposals |-> {}]

Scenarios ==
    {ScenarioS1, ScenarioS2, ScenarioSplit, ScenarioNull, ScenarioCommits,
     ScenarioAhead, ScenarioEquivocate, ScenarioPrepares, ScenarioLock,
     ScenarioPrimary, ScenarioEarly, ScenarioStale, ScenarioCatchUp,
     ScenarioAgain, ScenarioPending, ScenarioBadInput, ScenarioLocked,
     ScenarioTwoValues, ScenarioUnsafe, ScenarioBackwards, ScenarioLeak,
     ScenarioSameSender, ScenarioSuppress}

\* ---------------------------------------------------------------- actions

Init ==
    /\ node = [i \in Nodes |-> InitNode(i)]
    /\ env \in Scenarios
    /\ calls = 0

\* the application calls propose_value(value) on participant n
Propose(n, value) ==
    /\ calls < MaxCalls
    /\ <<n, value>> \in env.proposals
    /\ node' = [node EXCEPT ![n] = propose_value(@, value)]
    /\ calls' = calls + 1
    /\ UNCHANGED env

\* the transport hands a message that participant from broadcast to
\* participant to: NetworkSimulator._delivery_worker
Deliver(from, to) ==
    /\ <<from, to>> \in env.links
    /\ Len(node[to].message_queue) < MaxQueue
    /\ \E k \in 1 .. Len(node[from].sent) :
           node' = [node EXCEPT ![to] = receive_message(@, node[from].sent[k])]
    /\ UNCHANGED <<env, calls>>

\* the transport hands participant to a message forged by a Byzantine one
Inject(to) ==
    /\ Len(node[to].message_queue) < MaxQueue
    /\ \E d \in env.pool :
           /\ d[1] = to
           /\ node' = [node EXCEPT ![to] = receive_message(@, d[2])]
    /\ UNCHANGED <<env, calls>>

\* one turn of process_messages: pop the head of the queue and process it
Process(n) ==
    /\ node[n].message_queue # <<>>
    /\ node' = [node EXCEPT ![n] =
           process_message([@ EXCEPT !.message_queue = Tail(@)],
                           Head(node[n].message_queue))]
    /\ UNCHANGED <<env, calls>>

\* the round timer expires: its thread calls _on_round_timeout, which waits
\* for self.lock
TimerFire(n) ==
    /\ node[n].round_timer = "armed"
    /\ ~node[n].firing
    /\ node' = [node EXCEPT ![n].round_timer = "expired", ![n].firing = TRUE]
    /\ UNCHANGED <<env, calls>>

\* _on_round_timeout runs _start_round_change under self.lock
OnRoundTimeout(n) ==
    /\ node[n].firing
    /\ node' = [node EXCEPT ![n] = start_round_change([@ EXCEPT !.firing = FALSE])]
    /\ UNCHANGED <<env, calls>>

Next ==
    \/ \E n \in Nodes, v \in {"B0"} : Propose(n, v)
    \/ \E a \in Nodes, b \in Nodes : Deliver(a, b)
    \/ \E n \in Nodes : Inject(n)
    \/ \E n \in Nodes : Process(n)
    \/ \E n \in Nodes : TimerFire(n)
    \/ \E n \in Nodes : OnRoundTimeout(n)

Spec == Init /\ [][Next]_vars

\* The construction of the participants of a network of total_nodes, as in
\* IBFTTestRunner.setup_nodes: IBFTNode(node_id, total_nodes, ...) stores
\* total_nodes as self.n and computes self.f from it
IBFTNode(node_id, total_nodes) ==
    [n |-> total_nodes, f |-> f_of(total_nodes)] @@ InitNode(node_id)

ConstructInit ==
    /\ node = <<>>
    /\ env \in {[name |-> "construct", total_nodes |-> t] : t \in 4 .. MaxNodes}
    /\ calls = 0

Construct(i) ==
    /\ i \in 0 .. (env.total_nodes - 1)
    /\ i \notin DOMAIN node
    /\ node' = (i :> IBFTNode(i, env.total_nodes)) @@ node
    /\ UNCHANGED <<env, calls>>

ConstructNext == \E i \in 0 .. (MaxNodes - 1) : Construct(i)

ConstructSpec == ConstructInit /\ [][ConstructNext]_vars

\* The engines driven through their handlers: every message of
\* env.pool is handed once to the handler of its type on the participant it
\* is addressed to, and an armed round timer may expire.
EngineMessages ==
    {<<1, IBFTMessage("PREPREPARE", 0, 0, 0, "A", {}, 1)>>}
        \cup {<<1, IBFTMessage("PREPARE", 0, 0, i, "A", {}, 1)>> :
                  i \in {0, 2, 3}}
        \cup {<<1, IBFTMessage("ROUND_CHANGE", 1, 0, i, None, {}, 1)>> :
                  i \in {0, 2, 3}}
        \cup {<<2, IBFTMessage("PREPREPARE", 0, 0, 0, "A", {}, 1)>>,
               <<2, IBFTMessage("PREPREPARE", 1, 0, 1, "B", {}, 1)>>,
               <<2, IBFTMessage("NEW_ROUND", 1, 0, 1, "B",
                                {lock_string("lock", 0, "B")}, 1)>>}
        \cup {<<2, IBFTMessage("ROUND_CHANGE", 1, 0, i, None, {}, 1)>> :
                  i \in {0, 1, 3}}

EngineInit ==
    /\ node = [i \in Nodes |-> InitEngine(i)]
    /\ env = [name |-> "engine", byzantine |-> {0}, pool |-> EngineMessages,
              links |-> {}, proposals |-> {}]
    /\ calls = 0

\* a PRE-PREPARE of the pool is handed to IBFTConsensus.handle_preprepare
HandlePreprepare(n) ==
    /\ \E d \in env.pool :
           /\ d[1] = n
           /\ d[2].msg_type = "PREPREPARE"
           /\ node' = [node EXCEPT ![n] = consensus_handle_preprepare(@, d[2])]
           /\ env' = [env EXCEPT !.pool = @ \ {d}]
    /\ UNCHANGED calls

\* a PREPARE of the pool is handed to IBFTConsensus.handle_prepare
HandlePrepare(n) ==
    /\ \E d \in env.pool :
           /\ d[1] = n
           /\ d[2].msg_type = "PREPARE"
           /\ node' = [node EXCEPT ![n] = consensus_handle_prepare(@, d[2])]
           /\ env' = [env EXCEPT !.pool = @ \ {d}]
    /\ UNCHANGED calls

\* a ROUND_CHANGE of the pool is handed to IBFTViewChange.handle_round_change
HandleRoundChange(n) ==
    /\ \E d \in env.pool :
           /\ d[1] = n
           /\ d[2].msg_type = "ROUND_CHANGE"
           /\ node' = [node EXCEPT ![n] = view_change_handle_round_change(@, d[2])]
           /\ env' = [env EXCEPT !.pool = @ \ {d}]
    /\ UNCHANGED calls

\* a NEW_ROUND of the pool is handed to IBFTViewChange.handle_new_round
HandleNewRound(n) ==
    /\ \E d \in env.pool :
           /\ d[1] = n
           /\ d[2].msg_type = "NEW_ROUND"
           /\ node' = [node EXCEPT ![n] = view_change_handle_new_round(@, d[2])]
           /\ env' = [env EXCEPT !.pool = @ \ {d}]
    /\ UNCHANGED calls

\* IBFTViewChange._on_round_timeout: the timer set by reset_round_timer
\* expires
RoundTimeout(n) ==
    /\ node[n].round_timer = "armed"
    /\ node' = [node EXCEPT ![n] =
           view_change_start_round_change([@ EXCEPT !.round_timer = "expired"])]
    /\ UNCHANGED <<env, calls>>

EngineNext ==
    \/ \E n \in Nodes : HandlePreprepare(n)
    \/ \E n \in Nodes : HandlePrepare(n)
    \/ \E n \in Nodes : HandleRoundChange(n)
    \/ \E n \in Nodes : HandleNewRound(n)
    \/ \E n \in Nodes : RoundTimeout(n)

EngineSpec == EngineInit /\ [][EngineNext]_vars

\* process_messages never stops taking messages off the queue, the transport
\* delivers between the participants it links, and an armed timer expires
InitFair ==
    /\ Init
    /\ env \in {ScenarioS1, ScenarioS2, ScenarioEquivocate}

FairSpec ==
    /\ InitFair
    /\ [][Next]_vars
    /\ \A n \in Nodes : WF_vars(Process(n))
    /\ \A n \in Nodes : WF_vars(TimerFire(n))
    /\ \A n \in Nodes : WF_vars(OnRoundTimeout(n))
    /\ \A a \in Nodes, b \in Nodes : WF_vars(Deliver(a, b))

\* ----------------------------------------------------------------- claims

Correct == Nodes \ env.byzantine

\* the messages of a type that participant n has broadcast
sent_of(n, msg_type) ==
    {node[n].sent[k] : k \in {j \in 1 .. Len(node[n].sent) :
                                 node[n].sent[j].msg_type = msg_type}}

\* C1: Agreement: no two correct participants record different decided
\* values for the same sequence.
C1_Agreement ==
    \A p \in Correct, q \in Correct :
        \A s \in DOMAIN node[p].decisions \cap DOMAIN node[q].decisions :
            node[p].decisions[s] = node[q].decisions[s]

\* C2: Validity: every value a correct participant decides satisfies the
\* external validity predicate; no correct participant decides None.
C2_Validity ==
    \A p \in Correct :
        \A s \in DOMAIN node[p].decisions :
            is_valid_value(node[p].decisions[s])

\* the sequences for which on_decision_callback was invoked on participant n
callback_sequences(n) ==
    {node[n].callbacks[k][2] : k \in 1 .. Len(node[n].callbacks)}

\* C3: Decide-once: the decided value for a sequence is set at most once and
\* never changes afterwards, and on_decision is invoked at most once for a
\* sequence, whatever messages are delivered.
C3_DecideOnce ==
    /\ [](\A n \in Nodes :
            /\ Cardinality(callback_sequences(n)) = Len(node[n].callbacks)
            /\ callback_sequences(n) = DOMAIN node[n].decisions
            /\ \A k \in 1 .. Len(node[n].callbacks) :
                   node[n].callbacks[k] =
                       <<n, node[n].callbacks[k][2],
                         node[n].decisions[node[n].callbacks[k][2]]>>)
    /\ [][\A n \in Nodes :
            /\ \A s \in DOMAIN node[n].decisions :
                   /\ s \in DOMAIN node'[n].decisions
                   /\ node'[n].decisions[s] = node[n].decisions[s]
            /\ Len(node'[n].callbacks) >= Len(node[n].callbacks)
            /\ SubSeq(node'[n].callbacks, 1, Len(node[n].callbacks))
                   = node[n].callbacks]_vars

\* participant 1 decided "A" for sequence 0 and has since processed a quorum
\* of COMMITs for (0, 0, "B"), a second COMMIT of a sender of the first
\* quorum, and a COMMIT of a fourth sender
C3_Witness ==
    /\ env.name = "commits"
    /\ node[1].decisions = (0 :> "A")
    /\ Len(node[1].callbacks) = 1
    /\ node[1].message_queue = <<>>
    /\ \A d \in env.pool :
           (d[2].view = 0) => hash(d[2]) \in node[1].seen_messages

\* C4: In-order decisions without gaps: the decided sequences of a
\* participant are 0 .. λ-1; a quorum of COMMITs for a sequence above λ
\* decides nothing while a lower sequence is undecided.
C4_NoGaps ==
    \A n \in Correct :
        DOMAIN node[n].decisions = 0 .. (node[n].lam - 1)

\* C5: Termination: with at most one Byzantine or silent participant, fair
\* delivery between correct participants, fair timer expiry and a primary
\* that has a value to propose, every correct participant eventually decides
\* some value for every sequence 0 .. MaxSequence.
C5_Termination ==
    (env.name = "S1" /\ calls = 1)
        ~> (\A n \in Correct : \A s \in 0 .. MaxSequence :
                s \in DOMAIN node[n].decisions)

\* C6: Happy path (S1): all correct and every message delivered; after
\* propose("B0") on participant 0 all four participants eventually decide
\* "B0" for sequence 0 and invoke the decision callback for (0, "B0").
C6_HappyPath ==
    (env.name = "S1" /\ calls = 1)
        ~> (\A n \in Nodes :
                /\ 0 \in DOMAIN node[n].decisions
                /\ node[n].decisions[0] = "B0"
                /\ \E k \in 1 .. Len(node[n].callbacks) :
                       node[n].callbacks[k] = <<n, 0, "B0">>)

\* C7: Silent primary (S2): participant 0 sends no PRE-PREPARE; participants
\* 1-3 eventually each broadcast ROUND-CHANGE(view 1, sequence 0),
\* participant 1 eventually broadcasts NEW-ROUND(view 1) with a valid value,
\* and participants 1-3 eventually decide that value for sequence 0.
C7_SilentPrimary ==
    (env.name = "S2")
        ~> (/\ \A n \in {1, 2, 3} :
                   \E m \in sent_of(n, "ROUND_CHANGE") :
                       m.view = 1 /\ m.sequence = 0
            /\ \E m \in sent_of(1, "NEW_ROUND") :
                   /\ m.view = 1
                   /\ is_valid_value(m.value)
                   /\ \A n \in {1, 2, 3} :
                          /\ 0 \in DOMAIN node[n].decisions
                          /\ node[n].decisions[0] = m.value)

\* the digests in the justification of a NEW-ROUND that report a prepared
\* round: the ROUND-CHANGEs of its quorum whose own justification holds the
\* digest of a PREPARE
reported(m) ==
    UNION {h.justification : h \in m.justification}

\* C8: Safe-value selection: when the primary of a new view broadcasts
\* NEW-ROUND after a quorum of ROUND-CHANGEs of which at least one reports a
\* prepared round, the NEW-ROUND value is the prepared value reported with
\* the highest round in the quorum, also when the primary itself saw no
\* PREPARE quorum.
C8_SafeValue ==
    \A n \in Correct : \A m \in sent_of(n, "NEW_ROUND") :
        reported(m) # {} =>
            \E p \in reported(m) :
                /\ \A o \in reported(m) : o.view <= p.view
                /\ m.value = p.value

\* C9: At most one PREPARE per (view, sequence): a second PRE-PREPARE of the
\* primary for the same (view, sequence) causes no further PREPARE.
C9_OnePrepare ==
    \A n \in Correct :
        \A a \in sent_of(n, "PREPARE"), b \in sent_of(n, "PREPARE") :
            (a.view = b.view /\ a.sequence = b.sequence) => a = b

\* C10: At most one COMMIT per (view, sequence): COMMIT is broadcast once,
\* when the PREPARE senders first reach quorum; PREPAREs arriving after that
\* trigger no further COMMIT.
C10_OneCommit ==
    \A n \in Correct :
        \A a \in sent_of(n, "COMMIT"), b \in sent_of(n, "COMMIT") :
            (a.view = b.view /\ a.sequence = b.sequence) => a = b

\* the consensus state of a participant: instance, round, prepared round and
\* value, lock, logs, decisions, timer, and what it has sent and reported
consensus_state(s) ==
    <<s.lam, s.r, s.pr, s.pv, s.lock_round, s.lock_value, s.preprepare_msgs,
      s.prepare_msgs, s.commit_msgs, s.round_change_msgs, s.new_round_msgs,
      s.decided, s.decision, s.decisions, s.round_timer, s.sent, s.callbacks>>

C12_LockMonotonic ==
    [][\A n \in Nodes :
        /\ node'[n].lock_round >= node[n].lock_round
        /\ node'[n].lock_round # node[n].lock_round
            => Cardinality(senders_of(node'[n].prepare_msgs,
                                      node'[n].lock_round, node'[n].lam,
                                      node'[n].lock_value)) >= quorum_size]_vars

\* C14: Stale-sequence drop (S5): processing a message of any type whose
\* sequence is lower than the receiver's λ changes neither λ, r, pr, pv, the
\* lock, the logs nor the decisions, and sends nothing.
C14_StaleDrop ==
    [][\A n \in Nodes :
        (/\ node[n].message_queue # <<>>
         /\ Head(node[n].message_queue).sequence < node[n].lam
         /\ Process(n))
        => consensus_state(node'[n]) = consensus_state(node[n])]_vars

\* participant 1 decided sequence 0 and afterwards processed a PRE-PREPARE,
\* a PREPARE, a COMMIT, a ROUND_CHANGE and a NEW_ROUND for sequence 0, none
\* of which left a trace
C14_Witness ==
    /\ env.name = "stale"
    /\ node[1].lam = 1
    /\ node[1].message_queue = <<>>
    /\ \A d \in env.pool : hash(d[2]) \in node[1].seen_messages
    /\ node[1].r = 0
    /\ node[1].preprepare_msgs = <<>>
    /\ node[1].prepare_msgs = {}
    /\ node[1].round_change_msgs = {}
    /\ node[1].new_round_msgs = <<>>
    /\ \A e \in node[1].commit_msgs : e[3] = "A"
    /\ node[1].sent = <<>>

\* the messages the transport can hand to participant n
available(n) ==
    {d[2] : d \in {x \in env.pool : x[1] = n}}
        \cup UNION {{node[l[1]].sent[k] : k \in 1 .. Len(node[l[1]].sent)} :
                       l \in {x \in env.links : x[2] = n}}

\* a message that carries the signature of its sender, or one that
\* verify accepts
genuine(m) ==
    \/ m.signature = crypto_sign(private_key(m.sender), hash(m))
    \/ verify(m, public_keys[m.sender])

\* the senders whose COMMIT for (view, sequence, value) participant n has
\* taken off its queue, the head of the queue included
commit_senders_processed(n, view, sequence, value) ==
    {m.sender : m \in {x \in available(n) :
        /\ x.msg_type = "COMMIT" /\ x.view = view /\ x.sequence = sequence
        /\ x.value = value /\ genuine(x)
        /\ hash(x) \in node[n].seen_messages
        /\ \A k \in 2 .. Len(node[n].message_queue) :
               node[n].message_queue[k] # x}}

\* C15: Catch-up via COMMIT (S6): a participant at λ=0 with no PRE-PREPARE
\* and no PREPARE for sequence 0 that processes the COMMIT for (0, 0, v) of a
\* third distinct sender decides v for sequence 0, invokes the callback once
\* and moves to λ=1; no decision is taken on COMMITs of fewer than quorum
\* distinct senders.
C15_CatchUp ==
    [][\A n \in Correct :
        /\ (/\ node[n].message_queue # <<>>
             /\ node'[n].message_queue = Tail(node[n].message_queue)
             /\ node[n].lam = 0
             /\ node[n].preprepare_msgs = <<>>
             /\ node[n].prepare_msgs = {}
             /\ Head(node[n].message_queue).msg_type = "COMMIT"
             /\ Head(node[n].message_queue).view = 0
             /\ Head(node[n].message_queue).sequence = 0
             /\ Cardinality(commit_senders_processed(n, 0, 0,
                    Head(node[n].message_queue).value)) >= 3)
            => /\ node'[n].decisions =
                      (0 :> Head(node[n].message_queue).value)
               /\ node'[n].callbacks =
                      <<<<n, 0, Head(node[n].message_queue).value>>>>
               /\ node'[n].lam = 1
        /\ node'[n].decisions # node[n].decisions
            => \E e \in node'[n].commit_msgs :
                   /\ Cardinality(senders_of(node'[n].commit_msgs,
                                             e[1], e[2], e[3])) >= quorum_size
                   /\ e[2] \in DOMAIN node'[n].decisions
                   /\ node'[n].decisions[e[2]] = e[3]]_vars

\* C16: propose at the primary: whenever propose(value) is called on the
\* participant that is primary of its current round r in its current
\* instance λ, it broadcasts PRE-PREPARE(view r, sequence λ, value), also
\* after it has decided an earlier sequence.
C16_ProposeAtPrimary ==
    [][\A n \in Nodes, v \in {"B0"} :
        (Propose(n, v) /\ (node[n].r % N) = n)
        => \E k \in (Len(node[n].sent) + 1) .. Len(node'[n].sent) :
               /\ node'[n].sent[k].msg_type = "PREPREPARE"
               /\ node'[n].sent[k].view = node[n].r
               /\ node'[n].sent[k].sequence = node[n].lam
               /\ node'[n].sent[k].sender = n
               /\ node'[n].sent[k].value = v]_vars

\* the value the application passed to propose_value on participant n when n
\* did not broadcast it as a PRE-PREPARE
pending_proposal(n) ==
    IF /\ calls > 0
       /\ \E v \in {"B0"} : env.proposals = {<<n, v>>}
       /\ sent_of(n, "PREPREPARE") = {}
    THEN (CHOOSE p \in env.proposals : TRUE)[2]
    ELSE None

\* C17: propose at a non-primary: the value is retained, and a NEW-ROUND the
\* participant later broadcasts in the same instance on a quorum of
\* ROUND-CHANGEs that report no prepared value carries the retained value.
C17_PendingProposal ==
    [][\A n \in Correct :
        \A k \in (Len(node[n].sent) + 1) .. Len(node'[n].sent) :
            (/\ node'[n].sent[k].msg_type = "NEW_ROUND"
             /\ reported(node'[n].sent[k]) = {}
             /\ node[n].lam = 0
             /\ pending_proposal(n) # None)
            => node'[n].sent[k].value = pending_proposal(n)]_vars

\* C18: Signature binding: a message signed with participant i's private key
\* verifies under i's public key and under no other participant's; a message
\* without signature never verifies; signing leaves the digest unchanged.
C18_SignatureBinding ==
    \A n \in Nodes : \A k \in 1 .. Len(node[n].sent) :
        LET m == node[n].sent[k]
            unsigned == [m EXCEPT !.signature = <<>>]
        IN  m = sign(unsigned, private_key(n))
            => /\ verify(m, public_keys[n])
               /\ \A j \in Nodes \ {n} : ~verify(m, public_keys[j])
               /\ ~verify(unsigned, public_keys[n])
               /\ hash(m) = hash(unsigned)

\* every message a participant has broadcast or holds in its queue
messages_in_run ==
    UNION {{node[n].sent[k] : k \in 1 .. Len(node[n].sent)}
               \cup {node[n].message_queue[k] :
                         k \in 1 .. Len(node[n].message_queue)} : n \in Nodes}

\* C19: Serialization round-trip: from_json(to_json(m)) succeeds for every
\* message m and yields a message with the same msg_type, view, sequence,
\* sender, value and justification as m, hence the same digest.
C19_RoundTrip ==
    \A m \in messages_in_run :
        LET restored == from_json(to_json(m))
        IN  /\ restored.raised = None
            /\ restored.message.msg_type = m.msg_type
            /\ restored.message.view = m.view
            /\ restored.message.sequence = m.sequence
            /\ restored.message.sender = m.sender
            /\ restored.message.value = m.value
            /\ restored.message.justification = m.justification
            /\ hash(restored.message) = hash(m)

\* C20: Quorum identity: for every participant count from 4 to MaxNodes,
\* with f and quorum as the constructor computes them, N >= 3f+1 and
\* quorum > N/2 + f/2, that is, two sets of quorum participants out of N
\* share more than f members; for N=4, f=1 and quorum=3.
C20_QuorumIdentity ==
    \A i \in DOMAIN node :
        LET quorum == 2 * node[i].f + 1
            participants == 0 .. (node[i].n - 1)
        IN  /\ node[i].n = 4 => (node[i].f = 1 /\ quorum = 3)
            /\ node[i].n >= 3 * node[i].f + 1
            /\ 2 * quorum > node[i].n + node[i].f
            /\ \A A \in SUBSET participants : \A B \in SUBSET participants :
                   (Cardinality(A) = quorum /\ Cardinality(B) = quorum)
                   => Cardinality(A \cap B) > node[i].f

\* C13: Prepared-round monotonicity: within an instance pr never decreases
\* under any message delivery or timeout, and whenever pr changes to r, pv
\* is in the same step the value of the PRE-PREPARE accepted in round r.
C13_PreparedMonotonic ==
    [][\A n \in Nodes :
        node'[n].node.lam = node[n].node.lam
        => /\ node'[n].node.pr >= node[n].node.pr
           /\ node'[n].node.pr # node[n].node.pr
               => /\ <<node'[n].node.pr, node'[n].node.lam>>
                         \in DOMAIN node'[n].message_logs.preprepare
                  /\ node'[n].node.pv =
                         node'[n].message_logs.preprepare[
                             <<node'[n].node.pr, node'[n].node.lam>>].value]_vars

\* the messages of a queue that an earlier queue did not hold
newly_queued(before, after) ==
    {after[k] : k \in 1 .. Len(after)}
        \ {before[k] : k \in 1 .. Len(before)}

invalid_input(m) ==
    \/ m.sender \notin Nodes
    \/ m.signature # crypto_sign(private_key(m.sender), hash(m))

\* C22: No fail-stop on bad input: processing a message whose signature is
\* not its sender's, or whose sender is no participant, changes neither λ, r,
\* pr, pv, the lock, the logs nor the decisions and sends nothing, and the
\* message is taken off the queue so that the next one is processed.
C22_NoFailStop ==
    [][\A n \in Nodes :
        (/\ node[n].message_queue # <<>>
         /\ invalid_input(Head(node[n].message_queue))
         /\ Process(n))
        => /\ consensus_state(node'[n]) = consensus_state(node[n])
           /\ node'[n].message_queue = Tail(node[n].message_queue)]_vars

\* participant n has logged PREPAREs of a quorum of senders for some
\* (view, sequence, value)
has_prepare_quorum(n) ==
    \E e \in node[n].prepare_msgs :
        Cardinality({x \in node[n].prepare_msgs :
                        x[1] = e[1] /\ x[2] = e[2] /\ x[3] = e[3]})
            >= quorum_size

\* C23: Local safe value: _determine_safe_value(new_view) returns lock_value
\* whenever lock_round >= 0, and None when the participant holds no lock and
\* has logged no PREPARE quorum; the NEW_ROUND a primary broadcasts carries
\* that value, the default block standing for None.
C23_LocalSafeValue ==
    /\ [](\A n \in Nodes : \A new_view \in 0 .. N :
            /\ node[n].lock_round >= 0
                => determine_safe_value(node[n], new_view) = node[n].lock_value
            /\ (node[n].lock_round < 0 /\ ~has_prepare_quorum(n))
                => determine_safe_value(node[n], new_view) = None)
    /\ [][\A n \in Nodes :
            \A k \in (Len(node[n].sent) + 1) .. Len(node'[n].sent) :
                node'[n].sent[k].msg_type = "NEW_ROUND"
                => /\ (node[n].lock_round >= 0 /\ node[n].lock_value # None)
                       => node'[n].sent[k].value = node[n].lock_value
                   /\ (node[n].lock_round < 0 /\ ~has_prepare_quorum(n))
                       => node'[n].sent[k].value =
                              "Block for view "
                                  \o ToString(node'[n].sent[k].view)]_vars

\* participant 1 locked on (0, "A") and, as primary of view 1, has broadcast
\* NEW_ROUND(1) with its lock_value
C23_Witness ==
    /\ env.name = "locked"
    /\ node[1].lock_round = 0
    /\ node[1].lock_value = "A"
    /\ \E m \in sent_of(1, "NEW_ROUND") : m.view = 1 /\ m.value = "A"

\* C24: COMMIT requires a prepared certificate: when a participant
\* broadcasts COMMIT(r, λ, v) it has recorded a PRE-PREPARE for (r, λ) with
\* value v from the primary of r and PREPAREs for (r, λ, v) from a quorum of
\* senders; PREPAREs without the PRE-PREPARE make it neither COMMIT nor lock.
C24_PreparedCertificate ==
    [][\A n \in Correct :
        /\ \A k \in (Len(node[n].sent) + 1) .. Len(node'[n].sent) :
               LET m == node'[n].sent[k]
               IN  m.msg_type = "COMMIT"
                   => /\ <<m.view, m.sequence>>
                             \in DOMAIN node'[n].preprepare_msgs
                      /\ node'[n].preprepare_msgs[<<m.view, m.sequence>>].value
                             = m.value
                      /\ node'[n].preprepare_msgs[<<m.view, m.sequence>>].sender
                             = m.view % N
                      /\ Cardinality(senders_of(node'[n].prepare_msgs, m.view,
                                                m.sequence, m.value))
                             >= quorum_size
        /\ node'[n].lock_round # node[n].lock_round
            => \E key \in DOMAIN node'[n].preprepare_msgs :
                   /\ key[1] = node'[n].lock_round
                   /\ node'[n].preprepare_msgs[key].value
                          = node'[n].lock_value]_vars

\* C25: within one instance a correct participant never broadcasts COMMIT
\* for two different values, in the same round or in different rounds.
C25_OneCommitValue ==
    \A n \in Correct :
        \A a \in sent_of(n, "COMMIT"), b \in sent_of(n, "COMMIT") :
            a.sequence = b.sequence => a.value = b.value

\* the senders of the ROUND_CHANGEs for the view of m whose digests the
\* justification of m holds
round_change_quorum_of(m) ==
    {h.sender : h \in {x \in m.justification :
                          x.type = "ROUND_CHANGE" /\ x.view = m.view}}

\* C26: NEW-ROUND needs a ROUND-CHANGE quorum in its justification: a
\* NEW-ROUND from the primary of its view whose justification holds
\* ROUND-CHANGEs for that view of fewer than quorum senders is dropped with
\* the receiver's round, pr/pv and logs unchanged, and every NEW-ROUND a
\* participant has accepted carries such a quorum.
C26_NewRoundQuorum ==
    /\ [](\A n \in Nodes : \A v \in DOMAIN node[n].new_round_msgs :
            Cardinality(round_change_quorum_of(node[n].new_round_msgs[v]))
                >= quorum_size)
    /\ [][\A n \in Nodes :
            (/\ node[n].message_queue # <<>>
             /\ Head(node[n].message_queue).msg_type = "NEW_ROUND"
             /\ Head(node[n].message_queue).sender
                    = Head(node[n].message_queue).view % N
             /\ Cardinality(round_change_quorum_of(
                    Head(node[n].message_queue))) < quorum_size
             /\ Process(n))
            => consensus_state(node'[n]) = consensus_state(node[n])]_vars

\* the value of m is the value of a prepared certificate that no other
\* certificate reported in the justification of m exceeds in round
safe_for(m) ==
    \E p \in reported(m) :
        /\ \A o \in reported(m) : o.view <= p.view
        /\ m.value = p.value

\* C27: NEW-ROUND value check at the receiver: a NEW-ROUND whose quorum holds
\* a ROUND-CHANGE reporting a prepared certificate and whose value is not
\* the value of the highest-round certificate reported is dropped: the
\* receiver's state is unchanged and it sends no PREPARE.
C27_NewRoundValue ==
    [][\A n \in Nodes :
        (/\ node[n].message_queue # <<>>
         /\ Head(node[n].message_queue).msg_type = "NEW_ROUND"
         /\ reported(Head(node[n].message_queue)) # {}
         /\ ~safe_for(Head(node[n].message_queue))
         /\ Process(n))
        => consensus_state(node'[n]) = consensus_state(node[n])]_vars

\* C28: the current round never goes backwards: within an instance no
\* delivered message and no timeout moves a participant to a lower round.
C28_RoundMonotonic ==
    [][\A n \in Nodes :
        node'[n].lam = node[n].lam => node'[n].r >= node[n].r]_vars

\* the senders whose PREPARE for (view, sequence, value) has been handed to
\* the engine of participant n
prepares_handed(n, view, sequence, value) ==
    {d[2].sender : d \in {x \in EngineMessages \ env.pool :
        /\ x[1] = n /\ x[2].msg_type = "PREPARE" /\ x[2].view = view
        /\ x[2].sequence = sequence /\ x[2].value = value}}

\* C29: Early PREPAREs are not lost: when a participant accepts the
\* PRE-PREPARE(r, λ, v) after PREPAREs for (r, λ, v) of a quorum of senders
\* have been delivered to it, it broadcasts COMMIT(r, λ, v) and locks on
\* (r, v) in that step, without any further PREPARE.
C29_EarlyPrepares ==
    [][\A n \in Nodes :
        \A key \in DOMAIN node'[n].message_logs.preprepare
                       \ DOMAIN node[n].message_logs.preprepare :
            LET v == node'[n].message_logs.preprepare[key].value
            IN  Cardinality(prepares_handed(n, key[1], key[2], v))
                    >= node_quorum_size
                => /\ \E k \in 1 .. Len(node'[n].node.sent) :
                          /\ node'[n].node.sent[k].msg_type = "COMMIT"
                          /\ node'[n].node.sent[k].view = key[1]
                          /\ node'[n].node.sent[k].sequence = key[2]
                          /\ node'[n].node.sent[k].value = v
                   /\ node'[n].node.lock_round = key[1]
                   /\ node'[n].node.lock_value = v]_vars

\* C30: State reset on decision: in the step in which a participant decides
\* sequence s its state becomes λ = s+1, r = 0, pr = -1 and pv undefined.
C30_ResetOnDecision ==
    [][\A n \in Nodes :
        \A s \in DOMAIN node'[n].decisions \ DOMAIN node[n].decisions :
            /\ node'[n].lam = s + 1
            /\ node'[n].r = 0
            /\ node'[n].pr = -1
            /\ node'[n].pv = None]_vars

\* participant n has logged PREPAREs of a quorum of senders for value in
\* instance sequence
prepared_in(n, sequence, value) ==
    \E e \in node[n].prepare_msgs :
        /\ e[2] = sequence
        /\ e[3] = value
        /\ Cardinality(senders_of(node[n].prepare_msgs, e[1], e[2], e[3]))
               >= quorum_size

\* C31: Lock state does not leak across instances: once a participant has
\* decided and moved to a later instance λ, its safe-value selection returns
\* a value, and a NEW-ROUND it broadcasts for λ carries a value other than
\* the default block, only if that value reached a PREPARE quorum in λ.
C31_NoLockLeak ==
    /\ [](\A n \in Correct : \A new_view \in 1 .. N :
            (/\ node[n].lam > 0
             /\ determine_safe_value(node[n], new_view) # None)
            => prepared_in(n, node[n].lam,
                           determine_safe_value(node[n], new_view)))
    /\ [][\A n \in Correct :
            \A k \in (Len(node[n].sent) + 1) .. Len(node'[n].sent) :
                LET m == node'[n].sent[k]
                IN  (/\ m.msg_type = "NEW_ROUND"
                     /\ m.sequence > 0
                     /\ m.value # "Block for view " \o ToString(m.view))
                    => prepared_in(n, m.sequence, m.value)]_vars

\* C32: Timeout transition with re-arm: when the round timer of a
\* participant in round r of instance λ expires, the participant moves to
\* round r+1, broadcasts ROUND-CHANGE(view r+1, sequence λ) and re-arms the
\* timer, so that a further expiry can move it to round r+2.
C32_TimeoutReArm ==
    [][\A n \in Nodes :
        OnRoundTimeout(n)
        => /\ node'[n].r = node[n].r + 1
           /\ \E k \in (Len(node[n].sent) + 1) .. Len(node'[n].sent) :
                  /\ node'[n].sent[k].msg_type = "ROUND_CHANGE"
                  /\ node'[n].sent[k].view = node[n].r + 1
                  /\ node'[n].sent[k].sequence = node[n].lam
           /\ node'[n].round_timer = "armed"]_vars

\* C33: Late timer fires are discarded: an expiry of the round timer that
\* was scheduled before the timer was reset, and whose thread waited for the
\* participant's lock while the handler performed the reset, causes no round
\* change and no ROUND-CHANGE broadcast.
C33_LateFireDiscarded ==
    [][\A n \in Nodes :
        (/\ node[n].firing
         /\ node[n].round_timer = "armed"
         /\ OnRoundTimeout(n))
        => /\ node'[n].r = node[n].r
           /\ node'[n].sent = node[n].sent]_vars

\* C34: NEW-ROUND is sent only on a quorum: a participant that broadcasts
\* NEW-ROUND for view v is the primary of v and has recorded ROUND-CHANGEs
\* for v of at least quorum distinct senders, several ROUND-CHANGEs of one
\* sender counting once.
C34_NewRoundOnQuorum ==
    [][\A n \in Nodes :
        \A k \in (Len(node[n].sent) + 1) .. Len(node'[n].sent) :
            LET m == node'[n].sent[k]
            IN  m.msg_type = "NEW_ROUND"
                => /\ m.sender = n
                   /\ m.view % N = n
                   /\ Cardinality({e[2] : e \in
                          {x \in node'[n].round_change_msgs : x[1] = m.view}})
                          >= quorum_size]_vars

\* participant 1 has processed the two ROUND_CHANGEs of sender 0 and those of
\* senders 2 and 3 for view 1 and the three for view 2, and has broadcast
\* NEW_ROUND once, for view 1
C34_Witness ==
    /\ env.name = "samesender"
    /\ node[1].message_queue = <<>>
    /\ \A d \in env.pool : hash(d[2]) \in node[1].seen_messages
    /\ Cardinality({e \in node[1].round_change_msgs : e[1] = 1}) = 4
    /\ Cardinality({e \in node[1].round_change_msgs : e[1] = 2}) = 3
    /\ Len(node[1].sent) = 1
    /\ node[1].sent[1].msg_type = "NEW_ROUND"
    /\ node[1].sent[1].view = 1

\* C35: ROUND-CHANGE quorums are per instance: when a participant broadcasts
\* NEW-ROUND for view v in instance λ, it has recorded ROUND-CHANGEs for view
\* v with sequence λ of at least quorum distinct senders; ROUND-CHANGEs for v
\* with another sequence do not count.
C35_QuorumPerInstance ==
    [][\A n \in Nodes :
        \A k \in (Len(node[n].sent) + 1) .. Len(node'[n].sent) :
            LET m == node'[n].sent[k]
            IN  m.msg_type = "NEW_ROUND"
                => Cardinality({e[2] : e \in
                       {x \in node'[n].round_change_msgs :
                            x[1] = m.view /\ x[3].sequence = m.sequence}})
                       >= quorum_size]_vars

\* C36: ROUND-CHANGE carries the prepared state: the ROUND-CHANGE a
\* participant broadcasts on timeout carries, when the participant has
\* prepared (pr >= 0), the value pv and a justification from which (pr, pv)
\* can be read, and when pr = -1 no value and an empty justification.
C36_RoundChangeCarriesPrepared ==
    [][\A n \in Nodes :
        RoundTimeout(n)
        => LET m == node'[n].node.sent[Len(node'[n].node.sent)]
           IN  /\ m.msg_type = "ROUND_CHANGE"
               /\ node[n].node.pr >= 0
                   => /\ m.value = node[n].node.pv
                      /\ \E j \in m.justification :
                             /\ j.view = node[n].node.pr
                             /\ j.value = node[n].node.pv
               /\ node[n].node.pr = -1
                   => /\ m.value = None
                      /\ m.justification = {}]_vars

\* C37: f+1 rule: a participant in round r that processes a ROUND-CHANGE
\* for a view v > r and then has recorded ROUND-CHANGEs for v of at least
\* f+1 distinct senders moves to round v in that step.
C37_JumpOnFPlusOne ==
    [][\A n \in Nodes :
        (/\ node[n].message_queue # <<>>
         /\ Head(node[n].message_queue).msg_type = "ROUND_CHANGE"
         /\ Head(node[n].message_queue).view > node[n].r
         /\ Process(n)
         /\ Cardinality({e[2] : e \in
                {x \in node'[n].round_change_msgs :
                     x[1] = Head(node[n].message_queue).view}}) >= f + 1)
        => node'[n].r = Head(node[n].message_queue).view]_vars

\* C38: Future-sequence messages are buffered, not applied: processing a
\* message whose sequence is greater than the receiver's λ changes neither
\* round, pr/pv, lock, logs nor decisions and sends nothing.
C38_FutureBuffered ==
    [][\A n \in Nodes :
        (/\ node[n].message_queue # <<>>
         /\ Head(node[n].message_queue).sequence > node[n].lam
         /\ Process(n))
        => consensus_state(node'[n]) = consensus_state(node[n])]_vars

\* C39: An invalid copy cannot suppress a valid message: a copy that fails
\* signature verification, whether still queued or already processed and
\* dropped, does not keep the participant from queueing a copy with the same
\* digest that passes verification.
C39_InvalidCopyNoSuppress ==
    /\ [](\A n \in Nodes : \A m \in available(n) :
            (/\ m.sender \in Nodes
             /\ verify(m, public_keys[m.sender])
             /\ \E i \in 1 .. Len(node[n].message_queue) :
                    /\ hash(node[n].message_queue[i]) = hash(m)
                    /\ ~verify(node[n].message_queue[i],
                               public_keys[m.sender]))
            => receive_message(node[n], m) # node[n])
    /\ [][\A n \in Nodes :
            (/\ node[n].message_queue # <<>>
             /\ Head(node[n].message_queue).sender \in Nodes
             /\ ~verify(Head(node[n].message_queue),
                        public_keys[Head(node[n].message_queue).sender])
             /\ Process(n))
            => \A m \in available(n) :
                   (/\ hash(m) = hash(Head(node[n].message_queue))
                    /\ verify(m, public_keys[m.sender]))
                   => receive_message(node'[n], m) # node'[n]]_vars

\* C40: PRE-PREPARE in a later round needs a justification: handing a
\* participant a PRE-PREPARE for a view r > 0 whose justification is empty
\* or fails _has_valid_justification records no PRE-PREPARE and sends no
\* PREPARE.
C40_PreprepareNeedsJustification ==
    [][\A n \in Nodes : \A d \in env.pool :
        (/\ d[1] = n
         /\ d[2].msg_type = "PREPREPARE"
         /\ d[2].view > 0
         /\ ~has_valid_justification(d[2].justification, d[2].view)
         /\ node' = [node EXCEPT ![n] = consensus_handle_preprepare(@, d[2])]
         /\ env' = [env EXCEPT !.pool = @ \ {d}])
        => /\ node'[n].message_logs.preprepare
                  = node[n].message_logs.preprepare
           /\ node'[n].node.sent = node[n].node.sent]_vars

====
